---- MODULE Spec2Model ----
(***************************************************************************)
(* State-machine model of the LL-HLS core of djolodjolo23/Video-latency:   *)
(*   - PlaylistManager (src/ll-hls/streamer.py): bounded live window,      *)
(*     version counter, blocking playlist reads, init segment, persistence *)
(*   - the MPEG-TS demux loops run_biim_pipeline (src/ll-hls/              *)
(*     streamer_biim.py) and run_pipeline (src/ll-hls/server/streamer.py). *)
(*                                                                         *)
(* Python None is modelled as the empty tuple <<>> and a present value v   *)
(* as the one-element tuple <<v>> (bytes objects are tuples of lines, so   *)
(* None and b"" are both <<>>: the code never stores b"").                 *)
(***************************************************************************)
EXTENDS Integers, Sequences, FiniteSets, TLC

\* ------------------------------------------------------------------ bounds
MaxCapacity == 2        \* playlist_length is drawn from 1..MaxCapacity
MaxSegments == 3        \* add_segment calls per behaviour
MaxSince    == 2        \* since_version is drawn from None and 0..MaxSince
NumReaders  == 2        \* request threads, each making one get_playlist call
NumInitCallers == 2     \* threads calling ensure_init_segment
MaxFragments == 3       \* fragments produced per behaviour

None == <<>>
Some(v) == <<v>>

\* the sequences over S of length at most n
SeqsUpTo(S, n) == UNION { [1..k -> S] : k \in 0..n }

Readers == 1..NumReaders
Names == {"seg"}
Durations == {1}
ProgramTimes == {"pdt"}
Hints == {"", "part"}
SinceVersions == {None} \cup {Some(v) : v \in 0..MaxSince}

\* ------------------------------------------------- MP4 fragments (box lists)
\* A fragment is its list of top-level boxes laid out back to back, each with
\* its declared size, and the number of bytes the buffer really holds.
Box(t, s) == [type |-> t, size |-> s]
Fragments ==
  { [boxes |-> <<Box("ftyp", 20), Box("moov", 100), Box("moof", 50)>>, len |-> 170],
    [boxes |-> <<Box("moof", 50), Box("mdat", 30)>>, len |-> 80] }

VARIABLES
  capacity,        \* self._playlist_capacity
  segments,        \* self._segments (deque of dicts)
  next_sequence,   \* self._next_sequence
  base_sequence,   \* self._base_sequence
  version,         \* self._version
  playlist_bytes,  \* self._playlist_bytes (None = <<>>)
  preload_hint,    \* self._preload_hint (Optional[str])
  init_written,    \* self._init_written
  init_file,       \* contents of init.mp4 on disk
  playlist_file,   \* the file at self._playlist_path
  tmp_file,        \* the file at self._playlist_path.with_suffix(".tmp")
  add_outcome,     \* how the last add_segment call ended: "none", "ok", "OSError"
  add_calls,       \* number of add_segment calls made so far
  readers,         \* per get_playlist caller: position and call record
  \* run_biim_pipeline (streamer_biim.py)
  PMT_PID, AAC_PID, H264_PID, H265_PID, PCR_PID,
  biim_pc,         \* "running" in the while loop, "ended" after the finally block
  biim_exit,       \* how the loop was left: "none", "eof", "incomplete", "cancelled"
  biim_proc,       \* ffmpeg_proc: "running", "terminated" or "exited"
  biim_runner,     \* the aiohttp runner: "serving", "cleaned" or "abandoned"
  biim_count,      \* elementary-stream and unlistened packets emitted so far
  biim_fed,        \* numbers of the packets whose PID was assigned on arrival
  biim_pushed,     \* the X_PES_Parser.push(packet) calls, in call order
  biim_stray,      \* a byte equal to SYNC_BYTE was read outside a packet start
  biim_last,       \* the latest iteration on a packet: what it carried and did
  \* run_pipeline (server/streamer.py)
  pmt_pid, h264_pid, aac_pid,
  server_pc,       \* "running" in the while loop, "ended" after the finally block
  server_exit,     \* how the loop was left: "none", "eof", "incomplete", "cancelled"
  server_proc,     \* proc: "running", "terminated" or "exited"
  server_runner,   \* the aiohttp runner: "serving", "cleaned" or "abandoned"
  server_count,    \* elementary-stream and unlistened packets emitted so far
  server_fed,      \* numbers of the packets whose PID was assigned on arrival
  server_pushed,   \* the x_parser.push(packet) calls, in call order
  server_stray,    \* a byte equal to SYNC_BYTE was read outside a packet start
  server_types,    \* stream types of the PMT entries the loop has iterated over
  \* concurrent callers of PlaylistManager.ensure_init_segment
  init_threads,    \* per calling thread: position in ensure_init_segment
  init_log,        \* fragment numbers whose call wrote init.mp4 completely
  frag_count,      \* fragments produced so far (one call per fragment)
  \* a call of PlaylistManager._extract_init_boxes
  ex_data,         \* the buffer passed in
  ex_pc,           \* "idle", "called", "done"
  ex_result,       \* the Optional[bytes] returned
  \* the timestamp correlator (module globals of streamer_biim.py and
  \* server/streamer.py)
  _CURRENT_SEGMENT_INDEX,
  _SEGMENT_TIMESTAMPS,   \* dict: segment name -> time_ns of the observation
  corr_clock,      \* time.time_ns() of the latest call
  corr_calls,      \* _record_new_segments_from_m3u8 calls observed so far
  corr_last        \* the latest call: index observed, (name, time) items set

pmVars == <<capacity, segments, next_sequence, base_sequence, version,
            playlist_bytes, preload_hint, init_written, init_file,
            playlist_file, tmp_file, add_outcome, add_calls, readers>>
biimPidVars == <<PMT_PID, AAC_PID, H264_PID, H265_PID, PCR_PID>>
biimEndVars == <<biim_pc, biim_exit, biim_proc, biim_runner>>
biimLogVars == <<biim_count, biim_fed, biim_pushed, biim_stray>>
biimVars == <<biimPidVars, biimEndVars, biimLogVars, biim_last>>
serverPidVars == <<pmt_pid, h264_pid, aac_pid>>
serverEndVars == <<server_pc, server_exit, server_proc, server_runner>>
serverLogVars == <<server_count, server_fed, server_pushed, server_stray,
                   server_types>>
serverVars == <<serverPidVars, serverEndVars, serverLogVars>>
demuxVars == <<biimVars, serverVars>>
initVars == <<init_threads, init_log, frag_count>>
extractVars == <<ex_data, ex_pc, ex_result>>
corrVars == <<_CURRENT_SEGMENT_INDEX, _SEGMENT_TIMESTAMPS, corr_clock, corr_calls,
              corr_last>>
otherVars == <<initVars, extractVars, corrVars>>
nonPmVars == <<demuxVars, otherVars>>
vars == <<pmVars, biimVars, serverVars, otherVars>>

\* ------------------------------------------------------------ files on disk
Absent == [st |-> "absent", data |-> <<>>]
Complete(b) == [st |-> "complete", data |-> b]
Partial(b) == [st |-> "partial", data |-> b]

\* --------------------------------------------------- PlaylistManager helpers
Truthy(opt) == opt # None /\ opt[1] # ""

Segment(seq, name, duration, program_time) ==
  [sequence |-> seq, name |-> name, duration |-> duration, program_time |-> program_time]

RECURSIVE SegmentLines(_)
SegmentLines(segs) ==
  IF segs = <<>> THEN <<>>
  ELSE << <<"#EXT-X-PROGRAM-DATE-TIME", Head(segs).program_time>>,
          <<"#EXT-X-PART", Head(segs).duration, Head(segs).name>>,
          <<"#EXTINF", Head(segs).duration>>,
          <<"URI", Head(segs).name>> >> \o SegmentLines(Tail(segs))

\* A mutated _render_playlist_locked that does not look at _init_written.
RenderIgnoringInit(segs, initw, base, hint) ==
  IF segs = <<>> THEN <<>>
  ELSE << <<"#EXTM3U">>, <<"#EXT-X-MEDIA-SEQUENCE", base>> >> \o SegmentLines(segs)

\* A mutated _render_playlist_locked that appends the hint line whatever
\* the hint is.
RenderHintUnguarded(segs, initw, base, hint) ==
  IF segs = <<>> \/ ~initw THEN <<>>
  ELSE << <<"#EXTM3U">>,
          <<"#EXT-X-VERSION", 9>>,
          <<"#EXT-X-TARGETDURATION">>,
          <<"#EXT-X-SERVER-CONTROL", "CAN-BLOCK-RELOAD=YES">>,
          <<"#EXT-X-PART-INF">>,
          <<"#EXT-X-MAP", "init.mp4">>,
          <<"#EXT-X-MEDIA-SEQUENCE", base>> >>
       \o SegmentLines(segs)
       \o << <<"#EXT-X-PRELOAD-HINT", IF hint = None THEN "" ELSE hint[1]>> >>

\* _render_playlist_locked: b"" (= <<>>) until init segment and one segment exist
_render_playlist_locked(segs, initw, base, hint) ==
  IF segs = <<>> \/ ~initw THEN <<>>
  ELSE << <<"#EXTM3U">>,
          <<"#EXT-X-VERSION", 9>>,
          <<"#EXT-X-TARGETDURATION">>,
          <<"#EXT-X-SERVER-CONTROL", "CAN-BLOCK-RELOAD=YES">>,
          <<"#EXT-X-PART-INF">>,
          <<"#EXT-X-MAP", "init.mp4">>,
          <<"#EXT-X-MEDIA-SEQUENCE", base>> >>
       \o SegmentLines(segs)
       \o (IF Truthy(hint) THEN << <<"#EXT-X-PRELOAD-HINT", hint[1]>> >> ELSE <<>>)

\* the eviction loop of add_segment: popleft while the window is over capacity
RECURSIVE Evict(_, _, _)
Evict(segs, base, cap) ==
  IF Len(segs) > cap
  THEN Evict(Tail(segs), Head(segs).sequence + 1, cap)
  ELSE [segs |-> segs, base |-> base]

\* a mutant whose eviction loop runs while len >= capacity
WindowEvictingAtCapacity(segs, base, cap, seg) ==
  LET ev == Evict(Append(segs, seg), base, cap - 1)
  IN [segs |-> ev.segs,
      base |-> IF ev.segs # <<>> THEN Head(ev.segs).sequence ELSE ev.base]

\* the window and base sequence after append + eviction + base fix-up
WindowAfterAdd(segs, base, cap, seg) ==
  LET ev == Evict(Append(segs, seg), base, cap)
  IN [segs |-> ev.segs,
      base |-> IF ev.segs # <<>> THEN Head(ev.segs).sequence ELSE ev.base]

\* a mutant that forgets to bump the version
SameVersion(v) == v

\* self._version += 1
NextVersion(v) == v + 1

\* the value get_playlist returns: None without a playlist, else (bytes, version)
ReturnValue(bytes, v) ==
  IF bytes = <<>> THEN None ELSE Some([bytes |-> bytes, version |-> v])

\* ------------------------------------------------------- _extract_init_boxes
Min(a, b) == IF a < b THEN a ELSE b

\* a mutant of the scan that does not stop once both boxes are found
RECURSIVE ScanToTheEnd(_, _, _, _, _, _)
ScanToTheEnd(data, i, offset, result, found_ftyp, found_moov) ==
  IF ~(offset < data.len - 8) \/ i > Len(data.boxes)
  THEN [result |-> result, found_ftyp |-> found_ftyp, found_moov |-> found_moov]
  ELSE LET box == data.boxes[i]
           slice == [type |-> box.type, off |-> offset,
                     n |-> Min(box.size, data.len - offset)]
       IN IF box.size = 0 \/ box.size < 8
          THEN [result |-> result, found_ftyp |-> found_ftyp, found_moov |-> found_moov]
          ELSE ScanToTheEnd(data, i + 1, offset + box.size,
                            IF box.type \in {"ftyp", "moov"}
                            THEN Append(result, slice) ELSE result,
                            found_ftyp \/ box.type = "ftyp",
                            found_moov \/ box.type = "moov")

\* a mutant that steps over the 8-byte header of a box with a malformed size
RECURSIVE ScanPastMalformed(_, _, _, _, _, _)
ScanPastMalformed(data, i, offset, result, found_ftyp, found_moov) ==
  IF ~(offset < data.len - 8) \/ i > Len(data.boxes)
  THEN [result |-> result, found_ftyp |-> found_ftyp, found_moov |-> found_moov]
  ELSE LET box == data.boxes[i]
           slice == [type |-> box.type, off |-> offset,
                     n |-> Min(box.size, data.len - offset)]
       IN IF box.size = 0 \/ box.size < 8
          THEN ScanPastMalformed(data, i + 1, offset + 8, result,
                                 found_ftyp, found_moov)
          ELSE LET res == IF box.type \in {"ftyp", "moov"}
                          THEN Append(result, slice) ELSE result
                   ff == found_ftyp \/ box.type = "ftyp"
                   fm == found_moov \/ box.type = "moov"
               IN IF ff /\ fm
                  THEN [result |-> res, found_ftyp |-> ff, found_moov |-> fm]
                  ELSE ScanPastMalformed(data, i + 1, offset + box.size, res, ff, fm)

RECURSIVE ScanBoxes(_, _, _, _, _, _)
ScanBoxes(data, i, offset, result, found_ftyp, found_moov) ==
  IF ~(offset < data.len - 8) \/ i > Len(data.boxes)
  THEN [result |-> result, found_ftyp |-> found_ftyp, found_moov |-> found_moov]
  ELSE LET box == data.boxes[i]
           slice == [type |-> box.type, off |-> offset,
                     n |-> Min(box.size, data.len - offset)]
       IN IF box.size = 0 \/ box.size < 8
          THEN [result |-> result, found_ftyp |-> found_ftyp, found_moov |-> found_moov]
          ELSE LET res == IF box.type \in {"ftyp", "moov"}
                          THEN Append(result, slice) ELSE result
                   ff == found_ftyp \/ box.type = "ftyp"
                   fm == found_moov \/ box.type = "moov"
               IN IF ff /\ fm
                  THEN [result |-> res, found_ftyp |-> ff, found_moov |-> fm]
                  ELSE ScanBoxes(data, i + 1, offset + box.size, res, ff, fm)

\* a mutant that returns nothing unless both boxes were found
ExtractRequiringBoth(data) ==
  LET s == ScanBoxes(data, 1, 0, <<>>, FALSE, FALSE)
  IN IF s.found_ftyp /\ s.found_moov THEN s.result ELSE None

\* Optional[bytes]: the ftyp/moov slices found, or None (= <<>>)
_extract_init_boxes(data) ==
  LET s == ScanBoxes(data, 1, 0, <<>>, FALSE, FALSE)
  IN IF s.found_ftyp /\ s.found_moov THEN s.result
     ELSE IF s.found_ftyp \/ s.found_moov THEN s.result
     ELSE None

\* shutil.copyfile(path, init_path): every byte of the fragment
WholeFragment(data) == << [type |-> "*", off |-> 0, n |-> data.len] >>

\* --------------------------------- _extract_init_boxes on arbitrary buffers
MaxBoxes == 3           \* top-level boxes per buffer

\* boxes by type and declared size; "free" boxes carry the two malformed sizes
BoxKinds == {Box("ftyp", 20), Box("moov", 100), Box("moof", 50), Box("mdat", 30),
             Box("free", 0), Box("free", 4)}

\* the bytes a list of boxes takes when every box is complete (a box whose
\* size field is below 8 still has its 8-byte header)
RECURSIVE Extent(_)
Extent(boxes) ==
  IF boxes = <<>> THEN 0
  ELSE (IF Head(boxes).size < 8 THEN 8 ELSE Head(boxes).size) + Extent(Tail(boxes))

\* complete buffers, and buffers cut 10 bytes short of their last box's end
Buffers ==
  { [boxes |-> b, len |-> Extent(b)] : b \in SeqsUpTo(BoxKinds, MaxBoxes) }
  \cup { [boxes |-> b, len |-> Extent(b) - 10] :
          b \in {x \in SeqsUpTo(BoxKinds, MaxBoxes) : Extent(x) >= 20} }

ExtractIdle ==
  /\ ex_data = [boxes |-> <<>>, len |-> 0]
  /\ ex_pc = "idle"
  /\ ex_result = None

ExtractInit ==
  /\ ex_data \in Buffers
  /\ ex_pc = "called"
  /\ ex_result = None

\* one call of _extract_init_boxes(data)
Extract ==
  /\ ex_pc = "called"
  /\ ex_result' = _extract_init_boxes(ex_data)
  /\ ex_pc' = "done"
  /\ UNCHANGED <<ex_data, pmVars, demuxVars, initVars, corrVars>>


\* --------------------------------------------------------------- readers
IdleReader ==
  [pc |-> "idle",             \* "idle", "waiting" (in Condition.wait), "returned"
   since |-> None,            \* the since_version argument, while waiting
   constrained |-> FALSE,     \* the call gave a since_version (not None)
   call_version |-> 0,        \* self._version when a waiting call was made
   newer_at_call |-> FALSE,   \* since_version < self._version at the call
   bytes_at_call |-> FALSE,   \* a playlist was published at the call
   notified |-> FALSE,        \* woken by notify_all, not yet running
   waits |-> 0,               \* times the call entered Condition.wait
   cause |-> "none",          \* "immediate", "nowait", "notified", "timeout"
   advanced |-> FALSE,        \* self._version grew between call and return
   newer_at_return |-> FALSE, \* since_version < self._version at the return
   result_newer |-> FALSE,    \* since_version < the version returned
   result |-> None]           \* the returned Optional[(bytes, version)]

\* self._condition.notify_all(): every thread waiting on the condition is woken
notify_all(rs) ==
  [r \in Readers |->
     IF rs[r].pc = "waiting" THEN [rs[r] EXCEPT !.notified = TRUE] ELSE rs[r]]

\* mutants of the early returns: one ignores since_version, one serves only
\* the unconstrained call, one serves only the constrained call
ReturnsImmediatelyIgnoringSince(bytes, v, since) == bytes # <<>>
ReturnsImmediatelyOnlyUnconstrained(bytes, v, since) == bytes # <<>> /\ since = None
ReturnsImmediatelyOnlyConstrained(bytes, v, since) ==
  since # None /\ bytes # <<>> /\ since[1] < v

\* since_version < the version of a returned (bytes, version), if any
ResultNewer(since, result) ==
  since # None /\ result # None /\ since[1] < result[1].version

\* the two early returns of get_playlist
ReturnsImmediately(bytes, v, since) ==
  \/ bytes # <<>> /\ since = None
  \/ since # None /\ bytes # <<>> /\ since[1] < v

\* a mutant that waits again while the version is not newer than since_version
ResumeLooping(rec, cause, bytes, v) ==
  IF rec.since # None /\ ~(rec.since[1] < v)
  THEN [rec EXCEPT !.notified = FALSE, !.waits = 2]
  ELSE [rec EXCEPT !.pc = "returned", !.cause = cause, !.notified = FALSE,
                   !.since = None,
                   !.result = IF bytes = <<>> THEN None
                              ELSE Some([bytes |-> bytes, version |-> v])]

\* a mutant that pairs the current bytes with the version read before the wait
ResumeWithCallVersion(rec, cause, bytes, v) ==
  [rec EXCEPT !.pc = "returned", !.cause = cause, !.notified = FALSE,
              !.advanced = (v > rec.call_version), !.call_version = 0,
              !.newer_at_return = (rec.since # None /\ rec.since[1] < v),
              !.result_newer = ResultNewer(rec.since, ReturnValue(bytes, v)),
              !.since = None,
              !.result = ReturnValue(bytes, rec.call_version)]

\* the code after self._condition.wait(): no loop, return whatever is current
ResumeAfterWait(rec, cause, bytes, v) ==
  [rec EXCEPT !.pc = "returned", !.cause = cause, !.notified = FALSE,
              !.advanced = (v > rec.call_version), !.call_version = 0,
              !.newer_at_return = (rec.since # None /\ rec.since[1] < v),
              !.result_newer = ResultNewer(rec.since, ReturnValue(bytes, v)),
              !.since = None,
              !.result = ReturnValue(bytes, v)]

\* a mutant that writes the bytes straight to the playlist path
WriteInPlace(bytes, disk, tmp, pl) ==
  IF bytes = <<>> THEN <<>>
  ELSE IF disk = "write_fails"
  THEN <<[tmp |-> tmp, playlist |-> Partial(bytes)]>>
  ELSE <<[tmp |-> tmp, playlist |-> Partial(bytes)],
         [tmp |-> tmp, playlist |-> Complete(bytes)]>>

\* the file-system states _write_playlist_to_disk_locked passes through, one
\* per effect a process reading the two paths can observe:
\* tmp_path.write_bytes (file being written, then complete) and
\* tmp_path.replace(self._playlist_path)
WriteSteps(bytes, disk, tmp, pl) ==
  IF bytes = <<>> THEN <<>>
  ELSE IF disk = "write_fails"
  THEN <<[tmp |-> Partial(bytes), playlist |-> pl]>>
  ELSE IF disk = "replace_fails"
  THEN <<[tmp |-> Partial(bytes), playlist |-> pl],
         [tmp |-> Complete(bytes), playlist |-> pl]>>
  ELSE <<[tmp |-> Partial(bytes), playlist |-> pl],
         [tmp |-> Complete(bytes), playlist |-> pl],
         [tmp |-> Absent, playlist |-> Complete(bytes)]>>

\* _write_playlist_to_disk_locked: write the temporary file, then rename it
\* over the playlist; either step may raise OSError
_write_playlist_to_disk_locked(bytes, disk, tmp, pl) ==
  LET steps == WriteSteps(bytes, disk, tmp, pl)
  IN IF steps = <<>> THEN [tmp |-> tmp, playlist |-> pl, raised |-> FALSE]
     ELSE [tmp |-> steps[Len(steps)].tmp,
           playlist |-> steps[Len(steps)].playlist,
           raised |-> disk # "ok"]

DiskOutcomes == {"ok", "write_fails", "replace_fails"}
InitIO == {"ok", "read_fails", "write_fails"}

\* ------------------------------------------------- PlaylistManager actions
PMInit ==
  /\ capacity \in 1..MaxCapacity
  /\ segments = <<>>
  /\ next_sequence = 0
  /\ base_sequence = 0
  /\ version = 0
  /\ playlist_bytes = None
  /\ preload_hint = None
  /\ init_written = FALSE
  /\ init_file = Absent
  /\ playlist_file = Absent
  /\ tmp_file = Absent
  /\ add_outcome = "none"
  /\ add_calls = 0
  /\ readers = [r \in Readers |-> IdleReader]

\* a mutant that assigns self._playlist_bytes after the write succeeded
PublishedAfterWrite(rendered, raised, old) == IF raised THEN old ELSE rendered

\* `self._playlist_bytes = rendered` precedes the write to disk, so an OSError
\* raised by the write leaves the new bytes assigned
PublishedBytes(rendered, raised, old) == rendered

\* PlaylistManager.add_segment, the whole critical section
add_segment(name, duration, program_time, hint, disk) ==
  /\ add_calls < MaxSegments
  /\ LET seg == Segment(next_sequence, name, duration, program_time)
         w == WindowAfterAdd(segments, base_sequence, capacity, seg)
         v == NextVersion(version)
         rendered == _render_playlist_locked(w.segs, init_written, w.base, Some(hint))
         wr == _write_playlist_to_disk_locked(rendered, disk, tmp_file, playlist_file)
     IN /\ add_calls' = add_calls + 1
        /\ next_sequence' = next_sequence + 1
        /\ segments' = w.segs
        /\ base_sequence' = w.base
        /\ preload_hint' = Some(hint)
        /\ version' = v
        /\ IF rendered # <<>>
           THEN /\ playlist_bytes' = PublishedBytes(rendered, wr.raised, playlist_bytes)
                /\ tmp_file' = wr.tmp
                /\ playlist_file' = wr.playlist
                /\ add_outcome' = IF wr.raised THEN "OSError" ELSE "ok"
                /\ readers' = IF wr.raised THEN readers ELSE notify_all(readers)
           ELSE /\ disk = "ok"
                /\ add_outcome' = "ok"
                /\ UNCHANGED <<playlist_bytes, tmp_file, playlist_file, readers>>
  /\ UNCHANGED <<capacity, init_written, init_file>>
  /\ UNCHANGED nonPmVars

AddSegment ==
  \E name \in Names, duration \in Durations, program_time \in ProgramTimes,
     hint \in Hints, disk \in DiskOutcomes :
       add_segment(name, duration, program_time, hint, disk)

\* A mutated ensure_init_segment that renders and publishes the playlist
\* and notifies the readers once the init segment is written.
EnsureInitRepublishing(data, io) ==
  /\ IF init_written
     THEN /\ io = "ok"
          /\ UNCHANGED <<init_written, init_file, playlist_bytes, readers>>
     ELSE IF io = "read_fails"
     THEN UNCHANGED <<init_written, init_file, playlist_bytes, readers>>
     ELSE LET init_data == _extract_init_boxes(data)
              content == IF init_data # <<>> THEN init_data ELSE WholeFragment(data)
          IN IF io = "write_fails"
             THEN /\ init_file' = Partial(content)
                  /\ UNCHANGED <<init_written, playlist_bytes, readers>>
             ELSE /\ init_file' = Complete(content)
                  /\ init_written' = TRUE
                  /\ playlist_bytes' =
                       _render_playlist_locked(segments, TRUE, base_sequence,
                                               preload_hint)
                  /\ readers' = notify_all(readers)
  /\ UNCHANGED <<capacity, segments, next_sequence, base_sequence, version,
                 preload_hint, playlist_file, tmp_file, add_outcome, add_calls>>
  /\ UNCHANGED nonPmVars

\* A mutated ensure_init_segment that sets the flag once the init file was
\* opened for writing, whether or not the write succeeds.
EnsureInitFlagOnFailure(data, io) ==
  /\ IF init_written
     THEN /\ io = "ok"
          /\ UNCHANGED <<init_written, init_file>>
     ELSE IF io = "read_fails"
     THEN UNCHANGED <<init_written, init_file>>
     ELSE LET init_data == _extract_init_boxes(data)
              content == IF init_data # <<>> THEN init_data ELSE WholeFragment(data)
          IN /\ init_file' = IF io = "write_fails" THEN Partial(content)
                                                   ELSE Complete(content)
             /\ init_written' = TRUE
  /\ UNCHANGED <<capacity, segments, next_sequence, base_sequence, version,
                 playlist_bytes, preload_hint, playlist_file, tmp_file,
                 add_outcome, add_calls, readers>>
  /\ UNCHANGED nonPmVars

\* PlaylistManager.ensure_init_segment
ensure_init_segment(data, io) ==
  /\ IF init_written
     THEN /\ io = "ok"
          /\ UNCHANGED <<init_written, init_file>>
     ELSE IF io = "read_fails"
     THEN UNCHANGED <<init_written, init_file>>
     ELSE LET init_data == _extract_init_boxes(data)
              content == IF init_data # <<>> THEN init_data ELSE WholeFragment(data)
          IN IF io = "write_fails"
             THEN /\ init_file' = Partial(content)
                  /\ UNCHANGED init_written
             ELSE /\ init_file' = Complete(content)
                  /\ init_written' = TRUE
  /\ UNCHANGED <<capacity, segments, next_sequence, base_sequence, version,
                 playlist_bytes, preload_hint, playlist_file, tmp_file,
                 add_outcome, add_calls, readers>>
  /\ UNCHANGED nonPmVars

EnsureInitSegment ==
  \E data \in Fragments, io \in InitIO : ensure_init_segment(data, io)

\* ensure_init_segment called for a fragment file holding that buffer
ExtractEnsureInit ==
  /\ ex_pc = "done"
  /\ \E io \in InitIO : ensure_init_segment(ex_data, io)

ExtractNext ==
  \/ Extract
  \/ ExtractEnsureInit

\* PlaylistManager.get_playlist up to its return or its wait
get_playlist(r, since_version, wait) ==
  /\ readers[r].pc = "idle"
  /\ LET rec == [IdleReader EXCEPT
                   !.since = since_version,
                   !.constrained = (since_version # None),
                   !.newer_at_call = (since_version # None /\ since_version[1] < version),
                   !.bytes_at_call = (playlist_bytes # <<>>)]
         ret(cause) == [rec EXCEPT !.pc = "returned", !.cause = cause,
                                   !.newer_at_return = rec.newer_at_call,
                                   !.result_newer =
                                      ResultNewer(since_version,
                                                  ReturnValue(playlist_bytes, version)),
                                   !.since = None,
                                   !.result = ReturnValue(playlist_bytes, version)]
     IN readers' = [readers EXCEPT ![r] =
          IF ReturnsImmediately(playlist_bytes, version, since_version)
          THEN ret("immediate")
          ELSE IF wait THEN [rec EXCEPT !.pc = "waiting", !.waits = 1,
                                        !.call_version = version]
          ELSE ret("nowait")]
  /\ UNCHANGED <<capacity, segments, next_sequence, base_sequence, version,
                 playlist_bytes, preload_hint, init_written, init_file,
                 playlist_file, tmp_file, add_outcome, add_calls>>
  /\ UNCHANGED nonPmVars

GetPlaylist ==
  \E r \in Readers, since_version \in SinceVersions, wait \in BOOLEAN :
     get_playlist(r, since_version, wait)

\* the condition was notified: the waiter reacquires the lock and returns
GetPlaylistWake ==
  \E r \in Readers :
    /\ readers[r].pc = "waiting" /\ readers[r].notified
    /\ readers' = [readers EXCEPT ![r] =
                     ResumeAfterWait(readers[r], "notified", playlist_bytes, version)]
    /\ UNCHANGED <<capacity, segments, next_sequence, base_sequence, version,
                   playlist_bytes, preload_hint, init_written, init_file,
                   playlist_file, tmp_file, add_outcome, add_calls>>
    /\ UNCHANGED nonPmVars

\* wait(timeout=wait_seconds) timed out
GetPlaylistTimeout ==
  \E r \in Readers :
    /\ readers[r].pc = "waiting" /\ ~readers[r].notified
    /\ readers' = [readers EXCEPT ![r] =
                     ResumeAfterWait(readers[r], "timeout", playlist_bytes, version)]
    /\ UNCHANGED <<capacity, segments, next_sequence, base_sequence, version,
                   playlist_bytes, preload_hint, init_written, init_file,
                   playlist_file, tmp_file, add_outcome, add_calls>>
    /\ UNCHANGED nonPmVars

\* ------------------------- ensure_init_segment, step by step, from threads
\* ensure_init_segment takes no lock: the test of self._init_written and the
\* try block that ends with self._init_written = True are separate steps of
\* the calling thread.
InitCallers == 1..NumInitCallers

IdleCaller == [pc |-> "idle", frag |-> 0, data |-> <<>>]

InitThreadsInit ==
  /\ init_threads = [t \in InitCallers |-> IdleCaller]
  /\ init_log = <<>>
  /\ frag_count = 0

\* `if self._init_written: return`
EntersTryBlock(written) == ~written

\* the call for the next fragment reaches the test of self._init_written
EnsureInitCall(t, data) ==
  /\ init_threads[t].pc = "idle"
  /\ frag_count < MaxFragments
  /\ frag_count' = frag_count + 1
  /\ init_threads' = [init_threads EXCEPT ![t] =
       IF EntersTryBlock(init_written)
       THEN [pc |-> "try", frag |-> frag_count + 1, data |-> data]
       ELSE IdleCaller]
  /\ UNCHANGED <<init_log, pmVars, demuxVars, extractVars, corrVars>>

\* the try block: read the fragment, extract, write init.mp4, set the flag
EnsureInitTry(t, io) ==
  /\ init_threads[t].pc = "try"
  /\ LET data == init_threads[t].data
         init_data == _extract_init_boxes(data)
         content == IF init_data # <<>> THEN init_data ELSE WholeFragment(data)
     IN IF io = "read_fails"
        THEN UNCHANGED <<init_written, init_file, init_log>>
        ELSE IF io = "write_fails"
        THEN /\ init_file' = Partial(content)
             /\ UNCHANGED <<init_written, init_log>>
        ELSE /\ init_file' = Complete(content)
             /\ init_written' = TRUE
             /\ init_log' = Append(init_log, init_threads[t].frag)
  /\ init_threads' = [init_threads EXCEPT ![t] = IdleCaller]
  /\ UNCHANGED <<capacity, segments, next_sequence, base_sequence, version,
                 playlist_bytes, preload_hint, playlist_file, tmp_file,
                 add_outcome, add_calls, readers>>
  /\ UNCHANGED <<frag_count, demuxVars, extractVars, corrVars>>

EnsureInitCallStep ==
  \E t \in InitCallers, data \in Fragments : EnsureInitCall(t, data)

EnsureInitTryStep ==
  \E t \in InitCallers, io \in InitIO : EnsureInitTry(t, io)

InitNext ==
  \/ EnsureInitCallStep
  \/ EnsureInitTryStep

\* ------------------------------------- _record_new_segments_from_m3u8
MaxObservations == 3    \* calls per behaviour
MaxWindow == 3          \* len(m3u8_obj.segments) is drawn from 0..MaxWindow

ROLLING_WINDOW == 120   \* `if len(_SEGMENT_TIMESTAMPS) > 120`
NAME_WIDTH == 5         \* f"segment{file_index:05d}.m4s"

\* the high-water mark of a stream that has been running for a while
LongRunning == 99997

\* the decimal digits of n, most significant first
RECURSIVE Digits(_)
Digits(n) == IF n < 10 THEN <<n>> ELSE Append(Digits(n \div 10), n % 10)

RECURSIVE ZeroPad(_, _)
ZeroPad(d, w) == IF Len(d) >= w THEN d ELSE ZeroPad(<<0>> \o d, w)

\* f"segment{file_index:05d}.m4s": the name is modelled by its digit string
\* (the prefix "segment" and the suffix ".m4s" are the same in every name)
SegmentName(file_index) == ZeroPad(Digits(file_index), NAME_WIDTH)

\* the number a segment name stands for
RECURSIVE NameIndex(_)
NameIndex(name) ==
  IF name = <<>> THEN 0
  ELSE NameIndex(SubSeq(name, 1, Len(name) - 1)) * 10 + name[Len(name)]

\* str < str of two names: code point order; where one digit string is a
\* prefix of the other the shorter name continues with "." which sorts
\* before every digit
RECURSIVE StrLess(_, _)
StrLess(a, b) ==
  IF a = <<>> THEN b # <<>>
  ELSE IF b = <<>> THEN FALSE
  ELSE IF Head(a) # Head(b) THEN Head(a) < Head(b)
  ELSE StrLess(Tail(a), Tail(b))

\* sorted(_SEGMENT_TIMESTAMPS.keys())[0]
SortedFirst(keys) == CHOOSE k \in keys : \A j \in keys : j = k \/ StrLess(k, j)

DictSet(d, k, v) == [x \in DOMAIN d \cup {k} |-> IF x = k THEN v ELSE d[x]]
DictDel(d, k) == [x \in DOMAIN d \ {k} |-> d[x]]
EmptyDict == [x \in {} |-> 0]

\* a mutant whose range starts at the high-water mark itself
FirstIndexRestamping(current) == current

\* range(_CURRENT_SEGMENT_INDEX + 1, latest_file_index + 1) starts here
FirstIndex(current) == current + 1

\* the for loop: set the name's timestamp, then evict while over the bound
RECURSIVE RecordLoop(_, _, _, _, _)
RecordLoop(d, file_index, latest_file_index, now, items) ==
  IF file_index > latest_file_index THEN [dict |-> d, items |-> items]
  ELSE LET segment_name == SegmentName(file_index)
           d1 == DictSet(d, segment_name, now)
           d2 == IF Cardinality(DOMAIN d1) > ROLLING_WINDOW
                 THEN DictDel(d1, SortedFirst(DOMAIN d1)) ELSE d1
       IN RecordLoop(d2, file_index + 1, latest_file_index, now,
                     Append(items, [name |-> segment_name, at |-> now]))

\* m3u8 objects: without a segments attribute, or with a media sequence
\* (None when it is missing or not convertible: the code then takes 0) and a
\* window of segments
M3u8(has_segments, sequence, window) ==
  [has_segments |-> has_segments, sequence |-> sequence, window |-> window]

\* the media sequences drawn: 0, unreadable, and values around the mark
MediaSequences(current) ==
  {None, Some(0)}
  \cup {Some(current + d) : d \in {x \in {-3, 0, 2} : current + x >= 0}}

CorrFresh ==
  /\ _CURRENT_SEGMENT_INDEX = 0
  /\ _SEGMENT_TIMESTAMPS = EmptyDict
  /\ corr_clock = 0
  /\ corr_calls = 0
  /\ corr_last = [observed |-> None, items |-> <<>>]

\* a fresh module, or the module after one earlier call took the mark to
\* LongRunning: the 120 latest names, all with the time of that call
CorrInit ==
  \/ CorrFresh
  \/ /\ _CURRENT_SEGMENT_INDEX = LongRunning
     /\ _SEGMENT_TIMESTAMPS =
          [k \in {SegmentName(i) :
                    i \in (LongRunning - ROLLING_WINDOW + 1)..LongRunning} |-> 0]
     /\ corr_clock = 0
     /\ corr_calls = 0
     /\ corr_last = [observed |-> None, items |-> <<>>]

\* one call of _record_new_segments_from_m3u8(m3u8_obj) at time `now`
_record_new_segments_from_m3u8(m3u8_obj, now) ==
  /\ corr_calls < MaxObservations
  /\ corr_calls' = corr_calls + 1
  /\ corr_clock' = now
  /\ LET media_sequence == IF m3u8_obj.sequence = None THEN 0
                           ELSE m3u8_obj.sequence[1]
         latest_file_index == media_sequence + m3u8_obj.window
     IN IF ~m3u8_obj.has_segments \/ m3u8_obj.window = 0
        THEN /\ corr_last' = [observed |-> None, items |-> <<>>]
             /\ UNCHANGED <<_CURRENT_SEGMENT_INDEX, _SEGMENT_TIMESTAMPS>>
        ELSE IF latest_file_index <= _CURRENT_SEGMENT_INDEX
        THEN /\ corr_last' = [observed |-> Some(latest_file_index), items |-> <<>>]
             /\ UNCHANGED <<_CURRENT_SEGMENT_INDEX, _SEGMENT_TIMESTAMPS>>
        ELSE LET r == RecordLoop(_SEGMENT_TIMESTAMPS,
                                 FirstIndex(_CURRENT_SEGMENT_INDEX),
                                 latest_file_index, now, <<>>)
             IN /\ _SEGMENT_TIMESTAMPS' = r.dict
                /\ _CURRENT_SEGMENT_INDEX' = latest_file_index
                /\ corr_last' = [observed |-> Some(latest_file_index),
                                 items |-> r.items]
  /\ UNCHANGED <<pmVars, demuxVars, initVars, extractVars>>

RecordNewSegments ==
  \E has_segments \in BOOLEAN, window \in 0..MaxWindow,
     sequence \in MediaSequences(_CURRENT_SEGMENT_INDEX) :
       _record_new_segments_from_m3u8(M3u8(has_segments, sequence, window),
                                      corr_clock + 1)

CorrNext == RecordNewSegments

PMNext ==
  \/ AddSegment
  \/ EnsureInitSegment
  \/ GetPlaylist
  \/ GetPlaylistWake
  \/ GetPlaylistTimeout

\* ------------------------------------------------------------ MPEG-TS demux
MaxEntries == 2         \* entries per PAT / PMT section
MaxSections == 1        \* sections completed by one TS packet
MaxPackets == 2         \* elementary-stream / unlistened packets per behaviour
MaxUnits == 1           \* PES units completed by one packet

H264_TYPE == 27         \* 0x1b
H265_TYPE == 36         \* 0x24
AAC_TYPE == 15          \* 0x0F

\* 13-bit PIDs seen on the wire, program numbers and stream types of the tables
PIDs == {0, 256, 257}
ProgramNumbers == {0, 1}
StreamTypes == {H264_TYPE, H265_TYPE, AAC_TYPE, 6}

PATEntries == [program_number : ProgramNumbers, program_map_PID : PIDs]
PATSections ==
  [crc_ok : {TRUE}, entries : SeqsUpTo(PATEntries, MaxEntries)]
  \cup [crc_ok : {FALSE}, entries : SeqsUpTo(PATEntries, 1)]
PMTEntries == [stream_type : StreamTypes, elementary_PID : PIDs]
\* the entries of a section whose CRC fails are never iterated over: such
\* sections are drawn with at most one entry
\* and with a PCR PID no valid section carries, so that taking anything
\* from them shows
PMTSections ==
  [crc_ok : {TRUE}, PCR_PID : {256}, entries : SeqsUpTo(PMTEntries, MaxEntries)]
  \cup [crc_ok : {FALSE}, PCR_PID : {257}, entries : SeqsUpTo(PMTEntries, 1)]

\* Python truthiness of an Optional[int]: None and 0 are both falsy
Falsy(opt) == opt = None \/ opt = Some(0)

\* `PID == X_PID` for an Optional[int] X_PID
PidIs(pid, opt) == opt = Some(pid)

\* no packet has been read yet
NoIteration == [has_pcr |-> FALSE, calls |-> <<>>, crc_failed |-> FALSE,
                assigned |-> FALSE]

\* the packet completed sections and the CRC of every one of them fails
AllFailed(sections) ==
  sections # <<>> /\ \A i \in 1..Len(sections) : ~sections[i].crc_ok

DemuxInit ==
  /\ PMT_PID = None /\ AAC_PID = None /\ H264_PID = None
  /\ H265_PID = None /\ PCR_PID = None
  /\ biim_pc = "running" /\ biim_exit = "none"
  /\ biim_proc = "running" /\ biim_runner = "serving"
  /\ biim_count = 0 /\ biim_fed = <<>> /\ biim_pushed = <<>>
  /\ biim_stray = FALSE
  /\ biim_last = NoIteration
  /\ pmt_pid = None /\ h264_pid = None /\ aac_pid = None
  /\ server_pc = "running" /\ server_exit = "none"
  /\ server_proc = "running" /\ server_runner = "serving"
  /\ server_count = 0 /\ server_fed = <<>> /\ server_pushed = <<>>
  /\ server_stray = FALSE
  /\ server_types = {}

\* ------------------------------------------- run_biim_pipeline (biim loop)
\* PAT branch: `if not PMT_PID: PMT_PID = program_map_PID` per non-zero program
RECURSIVE BiimPATEntries(_, _)
BiimPATEntries(cur, entries) ==
  IF entries = <<>> THEN cur
  ELSE LET e == Head(entries)
       IN BiimPATEntries(
            IF e.program_number = 0 THEN cur
            ELSE IF Falsy(cur) THEN Some(e.program_map_PID) ELSE cur,
            Tail(entries))

RECURSIVE BiimPAT(_, _)
BiimPAT(cur, sections) ==
  IF sections = <<>> THEN cur
  ELSE BiimPAT(IF Head(sections).crc_ok
               THEN BiimPATEntries(cur, Head(sections).entries) ELSE cur,
               Tail(sections))

\* PMT branch: the `if not X_PID:` guards only the log line, the assignment
\* `X_PID = elementary_PID` runs for every entry of the stream type
RECURSIVE BiimPMTEntries(_, _)
BiimPMTEntries(st, entries) ==
  IF entries = <<>> THEN st
  ELSE LET e == Head(entries)
       IN BiimPMTEntries(
            IF e.stream_type = H264_TYPE
            THEN [st EXCEPT !.H264_PID = Some(e.elementary_PID)]
            ELSE IF e.stream_type = H265_TYPE
            THEN [st EXCEPT !.H265_PID = Some(e.elementary_PID)]
            ELSE IF e.stream_type = AAC_TYPE
            THEN [st EXCEPT !.AAC_PID = Some(e.elementary_PID)]
            ELSE st,
            Tail(entries))

\* a mutant that does not test the CRC of a PMT section
RECURSIVE BiimPMTIgnoringCrc(_, _)
BiimPMTIgnoringCrc(st, sections) ==
  IF sections = <<>> THEN st
  ELSE BiimPMTIgnoringCrc(
         BiimPMTEntries([st EXCEPT !.PCR_PID = Some(Head(sections).PCR_PID)],
                        Head(sections).entries),
         Tail(sections))

\* `for PMT in PMT_Parser: if PMT.CRC32() != 0: continue`, then the PCR PID
\* and the entries
RECURSIVE BiimPMT(_, _)
BiimPMT(st, sections) ==
  IF sections = <<>> THEN st
  ELSE BiimPMT(IF Head(sections).crc_ok
               THEN BiimPMTEntries([st EXCEPT !.PCR_PID = Some(Head(sections).PCR_PID)],
                                   Head(sections).entries)
               ELSE st,
               Tail(sections))

\* which branch of the if/elif chain a packet with this PID takes
BiimBranch(pid) ==
  IF PidIs(pid, H264_PID) THEN "h264"
  ELSE IF PidIs(pid, H265_PID) THEN "h265"
  ELSE IF PidIs(pid, AAC_PID) THEN "aac"
  ELSE IF pid = 0 THEN "pat"
  ELSE IF PidIs(pid, PMT_PID) THEN "pmt"
  ELSE "other"

\* the PIDs assigned to an elementary stream
BiimAssigned == {H264_PID, H265_PID, AAC_PID} \ {None}

\* a mutant whose AAC branch forgets to push
BiimPushDroppingAudio(pushed, branch, pid, n) ==
  IF branch \in {"h264", "h265"}
  THEN Append(pushed, n)
  ELSE pushed

\* X_PES_Parser.push(packet) in the branch taken
BiimPush(pushed, branch, pid, n) ==
  IF branch \in {"h264", "h265", "aac"}
  THEN Append(pushed, n)
  ELSE pushed

\* a mutant that forwards the PCR after the units of the packet
BiimHandlerCallsPcrLast(branch, has_pcr, units) ==
  (IF branch \in {"h264", "h265", "aac"} THEN [i \in 1..units |-> "unit"] ELSE <<>>)
  \o (IF has_pcr THEN <<"pcr">> ELSE <<>>)

\* the handler calls of one iteration, in call order: handler.pcr ("pcr")
\* when ts.has_pcr(packet), ahead of the if/elif chain; then handler.h264 /
\* h265 / aac ("unit") once per unit the PES parser yields after the push
BiimHandlerCalls(branch, has_pcr, units) ==
  (IF has_pcr THEN <<"pcr">> ELSE <<>>)
  \o (IF branch \in {"h264", "h265", "aac"} THEN [i \in 1..units |-> "unit"] ELSE <<>>)

\* one iteration of the loop on a complete packet of an elementary stream or
\* of a PID nobody listens to
BiimMediaPacket ==
  \E pid \in PIDs, has_pcr \in BOOLEAN, units \in 0..MaxUnits :
    /\ biim_pc = "running"
    /\ biim_count < MaxPackets
    /\ BiimBranch(pid) \in {"h264", "h265", "aac", "other"}
    /\ biim_count' = biim_count + 1
    /\ biim_fed' = IF Some(pid) \in BiimAssigned
                   THEN Append(biim_fed, biim_count + 1)
                   ELSE biim_fed
    /\ biim_pushed' = BiimPush(biim_pushed, BiimBranch(pid), pid, biim_count + 1)
    /\ biim_last' = [NoIteration EXCEPT
                       !.has_pcr = has_pcr,
                       !.calls = BiimHandlerCalls(BiimBranch(pid), has_pcr, units)]
    /\ UNCHANGED <<biimPidVars, biimEndVars, biim_stray>>
    /\ UNCHANGED <<pmVars, serverVars, otherVars>>

\* one iteration on a packet of PID 0: the PAT sections it completes
BiimPATPacket ==
  /\ biim_pc = "running"
  /\ BiimBranch(0) = "pat"
  /\ \E sections \in SeqsUpTo(PATSections, MaxSections), has_pcr \in BOOLEAN :
       /\ PMT_PID' = BiimPAT(PMT_PID, sections)
       /\ biim_last' = [has_pcr |-> has_pcr,
                        calls |-> BiimHandlerCalls("pat", has_pcr, 0),
                        crc_failed |-> AllFailed(sections),
                        assigned |-> BiimPAT(PMT_PID, sections) # PMT_PID]
  /\ UNCHANGED <<AAC_PID, H264_PID, H265_PID, PCR_PID, biimEndVars, biimLogVars>>
  /\ UNCHANGED <<pmVars, serverVars, otherVars>>

\* one iteration on a packet of the Program Map PID
BiimPMTPacket ==
  \E pid \in PIDs :
    /\ biim_pc = "running"
    /\ BiimBranch(pid) = "pmt"
    /\ \E sections \in SeqsUpTo(PMTSections, MaxSections), has_pcr \in BOOLEAN :
         LET cur == [H264_PID |-> H264_PID, H265_PID |-> H265_PID,
                     AAC_PID |-> AAC_PID, PCR_PID |-> PCR_PID]
             st == BiimPMT(cur, sections)
         IN /\ H264_PID' = st.H264_PID
            /\ H265_PID' = st.H265_PID
            /\ AAC_PID' = st.AAC_PID
            /\ PCR_PID' = st.PCR_PID
            /\ biim_last' = [has_pcr |-> has_pcr,
                             calls |-> BiimHandlerCalls("pmt", has_pcr, 0),
                             crc_failed |-> AllFailed(sections),
                             assigned |-> st # cur]
    /\ UNCHANGED <<PMT_PID, biimEndVars, biimLogVars>>
    /\ UNCHANGED <<pmVars, serverVars, otherVars>>

\* a byte that is not the sync byte: `continue`
BiimSkipByte ==
  /\ biim_pc = "running"
  /\ UNCHANGED vars

\* a byte equal to SYNC_BYTE that is not the first byte of a packet: the loop
\* takes it and the 187 bytes after it for a packet. The window has some PID
\* and is dispatched like a packet; a packet the encoder emitted whose first
\* bytes fall inside the window is never seen as a packet.
BiimStraySync ==
  \E window \in PIDs, lost \in {None} \cup {Some(p) : p \in PIDs},
     has_pcr \in BOOLEAN, units \in 0..MaxUnits :
    /\ biim_pc = "running"
    /\ biim_count < MaxPackets
    /\ biim_stray' = TRUE
    /\ biim_count' = biim_count + 1
    /\ biim_fed' = IF lost # None /\ lost \in BiimAssigned
                   THEN Append(biim_fed, biim_count + 1)
                   ELSE biim_fed
    /\ biim_pushed' = BiimPush(biim_pushed, BiimBranch(window), window, 0)
    /\ biim_last' = [NoIteration EXCEPT
                       !.has_pcr = has_pcr,
                       !.calls = BiimHandlerCalls(BiimBranch(window), has_pcr, units)]
    /\ UNCHANGED <<biimPidVars, biimEndVars>>
    /\ UNCHANGED <<pmVars, serverVars, otherVars>>

\* the finally block: terminate the encoder, wait for it, clean the runner up.
\* `reaped`: the encoder had exited by itself and the event loop has already
\* seen its exit and the end of both of its pipes; ffmpeg_proc.terminate()
\* then raises ProcessLookupError, the two awaits after it are not reached
\* and the exception leaves run_biim_pipeline (main catches KeyboardInterrupt
\* only). Whether the exit is seen before the loop reads the end of the
\* stream depends on the order in which the event loop handles the events.
BiimEnd(cause, reaped) ==
  /\ biim_pc = "running"
  /\ biim_pc' = "ended"
  /\ biim_exit' = cause
  /\ biim_proc' = IF reaped THEN "exited" ELSE "terminated"
  /\ biim_runner' = IF reaped THEN "abandoned" ELSE "cleaned"
  /\ UNCHANGED <<biimPidVars, biimLogVars, biim_last>>
  /\ UNCHANGED <<pmVars, serverVars, otherVars>>

\* reader.read(1) returned b'': `break`
BiimEOF == \E reaped \in BOOLEAN : BiimEnd("eof", reaped)

\* a sync byte followed by fewer than 187 bytes: IncompleteReadError, `break`
BiimIncompleteRead == \E reaped \in BOOLEAN : BiimEnd("incomplete", reaped)

\* asyncio.CancelledError raised in an await of the loop
BiimCancelled == \E reaped \in BOOLEAN : BiimEnd("cancelled", reaped)

BiimNext ==
  \/ BiimMediaPacket
  \/ BiimPATPacket
  \/ BiimPMTPacket
  \/ BiimSkipByte
  \/ BiimStraySync
  \/ BiimEOF
  \/ BiimIncompleteRead
  \/ BiimCancelled

\* ---------------------------------------------- run_pipeline (server loop)
\* `if num != 0 and not pmt_pid: pmt_pid = map_pid`
RECURSIVE ServerPATEntries(_, _)
ServerPATEntries(cur, entries) ==
  IF entries = <<>> THEN cur
  ELSE LET e == Head(entries)
       IN ServerPATEntries(
            IF e.program_number # 0 /\ Falsy(cur)
            THEN Some(e.program_map_PID) ELSE cur,
            Tail(entries))

RECURSIVE ServerPAT(_, _)
ServerPAT(cur, sections) ==
  IF sections = <<>> THEN cur
  ELSE ServerPAT(IF Head(sections).crc_ok
                 THEN ServerPATEntries(cur, Head(sections).entries) ELSE cur,
                 Tail(sections))

\* `if stream_type == 0x1b and not h264_pid: ... elif stream_type == 0x0f and
\* not aac_pid: ...`
RECURSIVE ServerPMTEntries(_, _)
ServerPMTEntries(st, entries) ==
  IF entries = <<>> THEN st
  ELSE LET e == Head(entries)
       IN ServerPMTEntries(
            IF e.stream_type = H264_TYPE /\ Falsy(st.h264_pid)
            THEN [st EXCEPT !.h264_pid = Some(e.elementary_PID)]
            ELSE IF e.stream_type = AAC_TYPE /\ Falsy(st.aac_pid)
            THEN [st EXCEPT !.aac_pid = Some(e.elementary_PID)]
            ELSE st,
            Tail(entries))

RECURSIVE ServerPMT(_, _)
ServerPMT(st, sections) ==
  IF sections = <<>> THEN st
  ELSE ServerPMT(IF Head(sections).crc_ok
                 THEN ServerPMTEntries(st, Head(sections).entries) ELSE st,
                 Tail(sections))

\* the stream types the `for stream_type, elem_pid, _ in pmt` loops iterate
\* over: those of the entries of the CRC-valid sections
RECURSIVE TypesListed(_)
TypesListed(sections) ==
  IF sections = <<>> THEN {}
  ELSE (IF Head(sections).crc_ok
        THEN {Head(sections).entries[i].stream_type :
                i \in 1..Len(Head(sections).entries)}
        ELSE {})
       \cup TypesListed(Tail(sections))

ServerBranch(pid) ==
  IF PidIs(pid, h264_pid) THEN "h264"
  ELSE IF PidIs(pid, aac_pid) THEN "aac"
  ELSE IF pid = 0 THEN "pat"
  ELSE IF PidIs(pid, pmt_pid) THEN "pmt"
  ELSE "other"

\* the PID run_pipeline holds for a stream type: it has the variables
\* h264_pid and aac_pid only
ServerPidFor(stream_type) ==
  IF stream_type = H264_TYPE THEN h264_pid
  ELSE IF stream_type = AAC_TYPE THEN aac_pid
  ELSE None

\* the PIDs assigned to an elementary stream
ServerAssigned == {h264_pid, aac_pid} \ {None}

\* x_parser.push(packet) in the branch taken
ServerPush(pushed, branch, pid, n) ==
  IF branch \in {"h264", "aac"}
  THEN Append(pushed, n)
  ELSE pushed

ServerMediaPacket ==
  \E pid \in PIDs :
    /\ server_pc = "running"
    /\ server_count < MaxPackets
    /\ ServerBranch(pid) \in {"h264", "aac", "other"}
    /\ server_count' = server_count + 1
    /\ server_fed' = IF Some(pid) \in ServerAssigned
                     THEN Append(server_fed, server_count + 1)
                     ELSE server_fed
    /\ server_pushed' = ServerPush(server_pushed, ServerBranch(pid), pid,
                                   server_count + 1)
    /\ UNCHANGED <<serverPidVars, serverEndVars, server_stray, server_types>>
    /\ UNCHANGED <<pmVars, biimVars, otherVars>>

ServerPATPacket ==
  /\ server_pc = "running"
  /\ ServerBranch(0) = "pat"
  /\ \E sections \in SeqsUpTo(PATSections, MaxSections) :
       pmt_pid' = ServerPAT(pmt_pid, sections)
  /\ UNCHANGED <<h264_pid, aac_pid, serverEndVars, serverLogVars>>
  /\ UNCHANGED <<pmVars, biimVars, otherVars>>

ServerPMTPacket ==
  \E pid \in PIDs :
    /\ server_pc = "running"
    /\ ServerBranch(pid) = "pmt"
    /\ \E sections \in SeqsUpTo(PMTSections, MaxSections) :
         LET st == ServerPMT([h264_pid |-> h264_pid, aac_pid |-> aac_pid], sections)
         IN /\ h264_pid' = st.h264_pid
            /\ aac_pid' = st.aac_pid
            /\ server_types' = server_types \cup TypesListed(sections)
    /\ UNCHANGED <<pmt_pid, serverEndVars, server_count, server_fed,
                   server_pushed, server_stray>>
    /\ UNCHANGED <<pmVars, biimVars, otherVars>>

ServerSkipByte ==
  /\ server_pc = "running"
  /\ UNCHANGED vars

\* a byte equal to SYNC_BYTE that is not the first byte of a packet
ServerStraySync ==
  \E window \in PIDs, lost \in {None} \cup {Some(p) : p \in PIDs} :
    /\ server_pc = "running"
    /\ server_count < MaxPackets
    /\ server_stray' = TRUE
    /\ server_count' = server_count + 1
    /\ server_fed' = IF lost # None /\ lost \in ServerAssigned
                     THEN Append(server_fed, server_count + 1)
                     ELSE server_fed
    /\ server_pushed' = ServerPush(server_pushed, ServerBranch(window), window, 0)
    /\ UNCHANGED <<serverPidVars, serverEndVars, server_types>>
    /\ UNCHANGED <<pmVars, biimVars, otherVars>>

\* the finally block: proc.terminate(), proc.wait(), runner.cleanup()
ServerEnd(cause, reaped) ==
  /\ server_pc = "running"
  /\ server_pc' = "ended"
  /\ server_exit' = cause
  /\ server_proc' = IF reaped THEN "exited" ELSE "terminated"
  /\ server_runner' = IF reaped THEN "abandoned" ELSE "cleaned"
  /\ UNCHANGED <<serverPidVars, serverLogVars>>
  /\ UNCHANGED <<pmVars, biimVars, otherVars>>

ServerEOF == \E reaped \in BOOLEAN : ServerEnd("eof", reaped)

ServerIncompleteRead == \E reaped \in BOOLEAN : ServerEnd("incomplete", reaped)

ServerCancelled == \E reaped \in BOOLEAN : ServerEnd("cancelled", reaped)

ServerNext ==
  \/ ServerMediaPacket
  \/ ServerPATPacket
  \/ ServerPMTPacket
  \/ ServerSkipByte
  \/ ServerStraySync
  \/ ServerEOF
  \/ ServerIncompleteRead
  \/ ServerCancelled

\* ------------------------------------------------------------ specifications
OtherInit == InitThreadsInit /\ ExtractIdle /\ CorrFresh
Init == PMInit /\ DemuxInit /\ OtherInit
Next == PMNext
InitDemux == PMInit /\ capacity = 1 /\ DemuxInit /\ OtherInit
InitExtract ==
  PMInit /\ capacity = 1 /\ DemuxInit /\ InitThreadsInit /\ ExtractInit /\ CorrFresh
InitCorr ==
  PMInit /\ capacity = 1 /\ DemuxInit /\ InitThreadsInit /\ ExtractIdle /\ CorrInit

\* the PlaylistManager with its writer and its reader threads
Spec == Init /\ [][Next]_vars

\* the demux loop of streamer_biim.py over an arbitrary packet stream
SpecBiim == InitDemux /\ [][BiimNext]_vars

\* the demux loop of server/streamer.py over an arbitrary packet stream
SpecServer == InitDemux /\ [][ServerNext]_vars

\* threads calling ensure_init_segment, one call per produced fragment
SpecInit == InitDemux /\ [][InitNext]_vars

\* _extract_init_boxes applied to every buffer of Buffers
SpecExtract == InitExtract /\ [][ExtractNext]_vars

\* the timestamp correlator under a sequence of playlist observations
SpecCorr == InitCorr /\ [][CorrNext]_vars

\* ------------------------------------------------------------------ claims
Max(a, b) == IF a > b THEN a ELSE b

\* what get_playlist hands back in the current state
Current == IF playlist_bytes = <<>> THEN None
           ELSE Some([bytes |-> playlist_bytes, version |-> version])

\* C1: after K add_segment calls on a manager of capacity C >= 1 the window
\* holds min(K, C) segments with the contiguous ascending sequence numbers
\* max(0, K-C) .. K-1, and the base sequence is that of the oldest one.
C1_WindowAfterKAdds ==
  capacity >= 1 =>
    /\ Len(segments) = Min(add_calls, capacity)
    /\ \A i \in 1..Len(segments) :
         segments[i].sequence = Max(0, add_calls - capacity) + i - 1
    /\ segments # <<>> => base_sequence = segments[1].sequence

C1_Witness ==
  /\ capacity = 2 /\ add_calls = 3
  /\ Len(segments) = 2
  /\ segments[1].sequence = 1 /\ segments[2].sequence = 2
  /\ base_sequence = 1

\* C2: every add_segment call raises the version by at least 1, whatever the
\* state (init written or not, rendered or not, persisted or failed); no
\* other step changes the version, so it never decreases.
C2_VersionStrictlyIncreases ==
  [][ /\ add_calls' = add_calls + 1 => version' >= version + 1
      /\ add_calls' = add_calls => version' = version ]_vars

C2_Witness ==
  /\ add_calls = 3 /\ version = 3
  /\ add_outcome = "OSError"
  /\ playlist_file.st = "absent"

C4_Original ==
  \A r \in Readers :
    /\ readers[r].newer_at_call => readers[r].waits = 0
    /\ (readers[r].pc = "returned" /\ readers[r].result # None
          /\ readers[r].newer_at_return) => readers[r].result_newer

\* C4 amended: a call made when version > V and a playlist is published
\* returns at once with it; and no call returns a version <= V while a
\* version > V exists at its return.
C4_NewerReturnsImmediately ==
  \A r \in Readers :
    /\ (readers[r].newer_at_call /\ readers[r].bytes_at_call)
         => /\ readers[r].pc = "returned" /\ readers[r].waits = 0
            /\ readers[r].cause = "immediate"
            /\ readers[r].result # None /\ readers[r].result_newer
    /\ (readers[r].pc = "returned" /\ readers[r].result # None
          /\ readers[r].newer_at_return) => readers[r].result_newer

C4_Witness ==
  \E r \in Readers :
    /\ readers[r].newer_at_call /\ readers[r].bytes_at_call
    /\ readers[r].pc = "returned" /\ readers[r].cause = "immediate"
    /\ readers[r].result # None /\ readers[r].result[1].version = 2

\* C5: when the timed wait of a blocked get_playlist call expires the call
\* returns: it waited once, does not wait again, and returns the current
\* playlist with its version, or None when none was ever published.
C5_TimeoutReturnsOnce ==
  [][ \A r \in Readers :
        (readers[r].pc = "waiting" /\ ~readers[r].notified
           /\ readers'[r] # readers[r] /\ ~readers'[r].notified)
        => /\ readers'[r].pc = "returned"
           /\ readers'[r].waits = 1
           /\ readers'[r].result = Current ]_vars

\* a call timed out with no new version and got the stale current playlist
C5_Witness ==
  \E r \in Readers :
    /\ readers[r].pc = "returned" /\ readers[r].cause = "timeout"
    /\ readers[r].waits = 1 /\ readers[r].constrained
    /\ ~readers[r].advanced /\ ~readers[r].newer_at_return
    /\ readers[r].result # None

\* C6 as stated: a call with since_version = None never blocks.
C6_Original ==
  \A r \in Readers :
    (readers[r].pc # "idle" /\ ~readers[r].constrained)
    => readers[r].pc = "returned" /\ readers[r].waits = 0

\* C6 amended: a call with since_version = None returns the current playlist
\* without blocking when one is published; when none is published it returns
\* None at once only for wait_seconds <= 0 and otherwise waits.
C6_UnconstrainedRead ==
  \A r \in Readers :
    (readers[r].pc # "idle" /\ ~readers[r].constrained)
    => /\ readers[r].bytes_at_call
            => /\ readers[r].pc = "returned" /\ readers[r].waits = 0
               /\ readers[r].cause = "immediate" /\ readers[r].result # None
       /\ (~readers[r].bytes_at_call /\ readers[r].waits = 0)
            => /\ readers[r].pc = "returned" /\ readers[r].cause = "nowait"
               /\ readers[r].result = None

C6_Witness ==
  /\ \E r \in Readers :
       /\ readers[r].pc = "returned" /\ ~readers[r].constrained
       /\ readers[r].bytes_at_call /\ readers[r].cause = "immediate"
  /\ \E r \in Readers :
       /\ readers[r].pc = "waiting" /\ ~readers[r].constrained
       /\ ~readers[r].bytes_at_call

\* C7: every add_segment call releases every reader blocked in get_playlist.
C7_EveryAddReleasesAllWaiters ==
  [][ add_calls' = add_calls + 1
        => \A r \in Readers :
             (readers[r].pc = "waiting" /\ ~readers[r].notified)
               => readers'[r].notified ]_vars

\* C8: a playlist is published (current bytes, playlist or temporary file on
\* disk, value returned to a reader) only if the init segment is written and
\* the window holds a segment.
C8_NoPlaylistBeforeInitAndSegment ==
  ( \/ playlist_bytes # <<>>
    \/ playlist_file.st # "absent"
    \/ tmp_file.st # "absent"
    \/ \E r \in Readers : readers[r].result # None )
  => init_written /\ Len(segments) >= 1

C8_Witness ==
  /\ playlist_bytes # <<>>
  /\ playlist_file.st = "complete"
  /\ \E r \in Readers : readers[r].result # None
  /\ init_written /\ Len(segments) >= 1

\* C9: in run_biim_pipeline an assigned H.264, H.265 or AAC PID is not
\* changed by a later PMT.
C9_BiimPidsNotReassigned ==
  [][ /\ H264_PID # None => H264_PID' = H264_PID
      /\ H265_PID # None => H265_PID' = H265_PID
      /\ AAC_PID # None => AAC_PID' = AAC_PID ]_vars

\* C10: in run_pipeline an assigned H.264 or AAC PID is never reassigned.
C10_ServerPidsNotReassigned ==
  [][ /\ h264_pid # None => h264_pid' = h264_pid
      /\ aac_pid # None => aac_pid' = aac_pid ]_vars

\* C11: in a stream whose bytes outside packets are not sync bytes, the
\* packets pushed into the PES reassemblers are exactly the emitted packets
\* whose PID was assigned on arrival, each once and in arrival order.
C11_PacketsPushedOnceInOrder ==
  ~biim_stray => biim_pushed = biim_fed

\* two packets on assigned PIDs of different streams, both pushed, in order
C11_Witness ==
  /\ ~biim_stray /\ biim_count = 2
  /\ biim_fed = <<1, 2>> /\ biim_pushed = <<1, 2>>
  /\ AAC_PID # None /\ H264_PID # None /\ AAC_PID # H264_PID

\* C12: over any sequence or interleaving of ensure_init_segment calls, one
\* per produced fragment, init.mp4 is written exactly once, by the call for
\* the first fragment, and is not rewritten afterwards.
C12_InitProducedOnceByFirstFragment ==
  /\ Len(init_log) <= 1
  /\ init_log # <<>> => init_log = <<1>>
  /\ init_written => init_file.st = "complete"

\* a buffer that starts with a complete ftyp box, then a complete moov box,
\* then at least one more box
FtypMoovThenMore(data) ==
  /\ Len(data.boxes) >= 3
  /\ data.boxes[1].type = "ftyp" /\ data.boxes[2].type = "moov"
  /\ data.len >= Extent(data.boxes)

\* C13: on a buffer made of an ftyp box, a moov box and further boxes,
\* _extract_init_boxes returns exactly the bytes of the ftyp and moov boxes
\* (the first ftyp.size + moov.size bytes) and nothing of any later box.
C13_ExtractReturnsFtypMoov ==
  (ex_pc = "done" /\ FtypMoovThenMore(ex_data))
  => ex_result = << [type |-> "ftyp", off |-> 0, n |-> ex_data.boxes[1].size],
                    [type |-> "moov", off |-> ex_data.boxes[1].size,
                     n |-> ex_data.boxes[2].size] >>

\* the claim's example: ftyp 20 + moov 100 + moof 50 gives the first 120 bytes
C13_Witness ==
  /\ ex_pc = "done"
  /\ ex_data = [boxes |-> <<Box("ftyp", 20), Box("moov", 100), Box("moof", 50)>>,
                len |-> 170]
  /\ ex_result = << [type |-> "ftyp", off |-> 0, n |-> 20],
                    [type |-> "moov", off |-> 20, n |-> 100] >>

\* C14: a call that observes a latest index L above the high-water mark H
\* sets the timestamp of exactly the names of H+1 .. L, all to the time of
\* the call, and sets the mark to L; a call with L <= H (or without
\* segments) changes nothing; the mark never decreases and no name that has
\* a timestamp gets another one.
C14_StampsExactlyNewIndices ==
  [][ corr_calls' = corr_calls + 1 =>
        LET H == _CURRENT_SEGMENT_INDEX
            L == corr_last'.observed
        IN /\ (L # None /\ L[1] > H) =>
                /\ _CURRENT_SEGMENT_INDEX' = L[1]
                /\ corr_last'.items =
                     [i \in 1..(L[1] - H) |->
                        [name |-> SegmentName(H + i), at |-> corr_clock']]
           /\ (L = None \/ L[1] <= H) =>
                /\ _CURRENT_SEGMENT_INDEX' = H
                /\ _SEGMENT_TIMESTAMPS' = _SEGMENT_TIMESTAMPS
                /\ corr_last'.items = <<>>
           /\ _CURRENT_SEGMENT_INDEX' >= H
           /\ \A k \in DOMAIN _SEGMENT_TIMESTAMPS' :
                IF k \in DOMAIN _SEGMENT_TIMESTAMPS
                THEN _SEGMENT_TIMESTAMPS'[k] = _SEGMENT_TIMESTAMPS[k]
                ELSE /\ _SEGMENT_TIMESTAMPS'[k] = corr_clock'
                     /\ NameIndex(k) \in (H + 1)..(_CURRENT_SEGMENT_INDEX') ]_vars

\* the claim's example: the mark was 5, the call observed 8 and set the
\* timestamps of segment00006, segment00007 and segment00008 to one time
C14_Witness ==
  /\ _CURRENT_SEGMENT_INDEX = 8
  /\ corr_last.observed = Some(8)
  /\ corr_last.items = [i \in 1..3 |-> [name |-> <<0, 0, 0, 0, 5 + i>>, at |-> corr_clock]]
  /\ {NameIndex(k) : k \in DOMAIN _SEGMENT_TIMESTAMPS} = 1..8
  /\ \A k \in DOMAIN _SEGMENT_TIMESTAMPS :
       _SEGMENT_TIMESTAMPS[k] = corr_clock <=> NameIndex(k) \in 6..8

\* C15: after every call the timestamp map holds at most 120 names, and they
\* are the names of the numerically most recent indices (each eviction takes
\* the numerically smallest index), whatever index the counter has reached.
C15_RollingWindowKeepsMostRecent ==
  /\ Cardinality(DOMAIN _SEGMENT_TIMESTAMPS) <= ROLLING_WINDOW
  /\ {NameIndex(k) : k \in DOMAIN _SEGMENT_TIMESTAMPS}
       = {i \in 1.._CURRENT_SEGMENT_INDEX :
            i > _CURRENT_SEGMENT_INDEX - ROLLING_WINDOW}

\* C16: the playlist path is only ever replaced as a whole. In every
\* add_segment call that writes, each file-system state the write passes
\* through leaves at the playlist path either the complete previous file or
\* the complete new playlist, the new bytes go to the temporary path first
\* and reach the playlist path by the rename, and the playlist path never
\* holds a half-written file.
C16_PlaylistFileReplacedAtomically ==
  [][add_calls' = add_calls + 1 =>
       /\ playlist_file'.st # "partial"
       /\ playlist_file' \in {playlist_file, Complete(playlist_bytes')}
       /\ \A disk \in DiskOutcomes :
            LET rendered == _render_playlist_locked(segments', init_written',
                                                    base_sequence', preload_hint')
                steps == WriteSteps(rendered, disk, tmp_file, playlist_file)
                wr == _write_playlist_to_disk_locked(rendered, disk, tmp_file,
                                                     playlist_file)
            IN (/\ rendered # <<>>
                /\ wr.tmp = tmp_file'
                /\ wr.playlist = playlist_file'
                /\ wr.raised = (add_outcome' = "OSError"))
               => /\ steps # <<>>
                  /\ steps[1].tmp = Partial(rendered)
                  /\ \A i \in 1..Len(steps) :
                       /\ steps[i].playlist.st # "partial"
                       /\ steps[i].playlist \in {playlist_file, Complete(rendered)}
                       /\ (i > 1 /\ steps[i].playlist # steps[i - 1].playlist)
                            => steps[i - 1].tmp = Complete(rendered)
  ]_vars

\* a complete playlist on disk has been replaced by the next complete one
C16_Witness ==
  /\ add_calls >= 2
  /\ add_outcome = "ok"
  /\ Len(segments) >= 2
  /\ playlist_file = Complete(playlist_bytes)
  /\ tmp_file = Absent

\* C17: an add_segment call whose write to disk fails ends with OSError at
\* its caller and leaves window, base sequence, version, preload hint and
\* current bytes including the new segment; from a state left by such a
\* failure, get_playlist returns the current playlist with its version and
\* the next add_segment call extends the window and the version as usual.
C17_PersistFailureKeepsMemoryValid ==
  [][ LET rendered == _render_playlist_locked(segments', init_written',
                                              base_sequence', preload_hint')
      IN /\ (add_calls' = add_calls + 1 /\ add_outcome' = "OSError") =>
              /\ playlist_file' = playlist_file
              /\ segments' # <<>>
              /\ segments'[Len(segments')].sequence = next_sequence
              /\ Len(segments') <= capacity
              /\ base_sequence' = segments'[1].sequence
              /\ version' = version + 1
              /\ preload_hint' # None
              /\ rendered # <<>> /\ playlist_bytes' = rendered
         /\ add_outcome = "OSError" =>
              /\ \A r \in Readers :
                   (readers[r].pc # "returned" /\ readers'[r].pc = "returned")
                     => readers'[r].result =
                          Some([bytes |-> playlist_bytes, version |-> version])
              /\ add_calls' = add_calls + 1 =>
                   /\ version' = version + 1
                   /\ segments'[Len(segments')].sequence = next_sequence
                   /\ playlist_bytes' = rendered ]_vars

\* the write of the second playlist failed, a reader then got that second
\* playlist at version 2 while the file still holds the first
C17_Witness ==
  /\ add_outcome = "OSError"
  /\ version = 2 /\ Len(segments) = 2
  /\ playlist_file.st = "complete" /\ playlist_file.data # playlist_bytes
  /\ \E r \in Readers :
       /\ readers[r].pc = "returned"
       /\ readers[r].result = Some([bytes |-> playlist_bytes, version |-> 2])

\* C19: every state a reader can observe is a state between add_segment
\* calls: the window is within capacity, the base sequence is that of the
\* oldest segment and published bytes are the rendering of the current
\* window, base sequence and preload hint; these change only together with
\* the version; and every (playlist, version) pair a get_playlist call
\* returns is that rendering paired with the version it was rendered at.
C19_AddAtomicForReaders ==
  [][ LET Rendering(segs, written, base, hint) ==
            _render_playlist_locked(segs, written, base, hint)
          now == Rendering(segments, init_written, base_sequence, preload_hint)
          next == Rendering(segments', init_written', base_sequence', preload_hint')
      IN /\ Len(segments') <= capacity'
         /\ segments' # <<>> => base_sequence' = segments'[1].sequence
         /\ playlist_bytes' # <<>> => playlist_bytes' = next
         /\ version' = version =>
              /\ segments' = segments /\ base_sequence' = base_sequence
              /\ preload_hint' = preload_hint /\ playlist_bytes' = playlist_bytes
         /\ version' # version => (playlist_bytes # <<>> => playlist_bytes' = next)
         /\ \A r \in Readers :
              (readers[r].pc # "returned" /\ readers'[r].pc = "returned"
                 /\ readers'[r].result # None)
              => /\ version' = version
                 /\ readers'[r].result = Some([bytes |-> now, version |-> version])
    ]_vars

\* a reader that waited across an add_segment call which evicted a segment
\* got the new rendering with the new version
C19_Witness ==
  /\ version >= 2 /\ base_sequence >= 1 /\ Len(segments) = capacity
  /\ \E r \in Readers :
       /\ readers[r].pc = "returned" /\ readers[r].cause = "notified"
       /\ readers[r].result =
            Some([bytes |-> _render_playlist_locked(segments, init_written,
                                                    base_sequence, preload_hint),
                  version |-> version])

\* C18: when the loop of run_biim_pipeline has ended because the encoder's
\* output reached EOF (or broke off inside a packet), and no teardown was
\* requested, the HTTP endpoints are still serving.
C18_ServingContinuesAfterEOF ==
  (biim_pc = "ended" /\ biim_exit \in {"eof", "incomplete"})
  => biim_runner = "serving"

\* C20: in run_pipeline, once a CRC-valid PMT on the Program Map PID has
\* listed stream type 0x1B, 0x24 or 0x0F, the loop holds a PID for that
\* elementary stream, and (in a stream without stray sync bytes) every
\* packet arriving on an assigned PID is pushed into a PES reassembler.
C20_ServerPmtAssignsListedStreams ==
  /\ \A t \in server_types \cap {H264_TYPE, H265_TYPE, AAC_TYPE} :
       ServerPidFor(t) # None
  /\ ~server_stray => server_pushed = server_fed

\* the PID mapped by the first entry with a non-zero program number, if any
RECURSIVE FirstProgramPid(_)
FirstProgramPid(entries) ==
  IF entries = <<>> THEN None
  ELSE IF Head(entries).program_number # 0 THEN Some(Head(entries).program_map_PID)
  ELSE FirstProgramPid(Tail(entries))

\* C21: an assigned Program Map PID is never changed, and a CRC-valid PAT
\* arriving while none is assigned sets it to the PID mapped by the first
\* entry with a non-zero program number (and leaves it unassigned if there
\* is no such entry).
C21_PmtPidFromFirstProgram ==
  [][ /\ PMT_PID # None => PMT_PID' = PMT_PID
      /\ \A pat \in PATSections :
           pat.crc_ok =>
             BiimPAT(PMT_PID, <<pat>>) =
               (IF PMT_PID # None THEN PMT_PID ELSE FirstProgramPid(pat.entries))
    ]_vars

\* the PID variables of run_biim_pipeline
BiimPids == [H264_PID |-> H264_PID, H265_PID |-> H265_PID,
             AAC_PID |-> AAC_PID, PCR_PID |-> PCR_PID]

\* whatever PIDs run_pipeline holds, a PAT or PMT section that fails the CRC
\* check leaves them as they are
ServerTablesSkipFailedCrc ==
  /\ \A pat \in PATSections, cur \in {None} \cup {Some(p) : p \in PIDs} :
       ~pat.crc_ok => ServerPAT(cur, <<pat>>) = cur
  /\ \A pmt \in PMTSections,
        a \in {None} \cup {Some(p) : p \in PIDs},
        b \in {None} \cup {Some(p) : p \in PIDs} :
       ~pmt.crc_ok =>
         ServerPMT([h264_pid |-> a, aac_pid |-> b], <<pmt>>)
           = [h264_pid |-> a, aac_pid |-> b]

\* C22: an iteration whose PAT or PMT sections all fail the CRC check
\* assigns nothing (Program Map PID, PCR PID, video and audio PIDs keep
\* their values) and leaves the loop running, and a valid section arriving
\* next is still taken: a valid PAT sets an unassigned Program Map PID and a
\* valid PMT sets the PCR PID and the H.264 PID. The table handling of
\* run_pipeline leaves its PIDs alone on such a section as well.
C22_CrcFailureAssignsNothing ==
  [][ /\ (biim_last'.crc_failed /\ biim_pc' = "running")
           => /\ biimPidVars' = biimPidVars
              /\ ~biim_last'.assigned
              /\ PMT_PID = None =>
                   BiimPAT(PMT_PID, << [crc_ok |-> TRUE, entries |->
                       << [program_number |-> 1, program_map_PID |-> 256] >>] >>)
                   = Some(256)
              /\ LET st == BiimPMT(BiimPids, << [crc_ok |-> TRUE, PCR_PID |-> 256,
                              entries |-> << [stream_type |-> H264_TYPE,
                                              elementary_PID |-> 257] >>] >>)
                 IN st.H264_PID = Some(257) /\ st.PCR_PID = Some(256)
              /\ ServerTablesSkipFailedCrc
      /\ (biim_last' # biim_last /\ biim_last'.crc_failed) => biim_pc' = "running"
    ]_vars

\* a PMT section with a failing CRC arrived on the Program Map PID before any
\* stream PID was assigned: nothing was assigned and the loop is running
C22_Witness ==
  /\ biim_pc = "running"
  /\ biim_last.crc_failed /\ ~biim_last.assigned
  /\ PMT_PID = Some(256)
  /\ H264_PID = None /\ H265_PID = None /\ AAC_PID = None /\ PCR_PID = None

\* C23: when the loop of run_biim_pipeline ends (end of stream at a packet
\* boundary, end of stream inside a packet, or cancellation) the trailing
\* bytes reach no parser and no handler, no PID changes, and the finally
\* block runs to its end without an exception: the encoder is terminated
\* and waited for and the runner is cleaned up.
C23_StreamEndCleansUp ==
  [][ (biim_pc = "running" /\ biim_pc' = "ended")
        => /\ biim_exit' \in {"eof", "incomplete", "cancelled"}
           /\ biim_pushed' = biim_pushed
           /\ biim_last' = biim_last
           /\ biimPidVars' = biimPidVars
           /\ biim_proc' = "terminated"
           /\ biim_runner' = "cleaned" ]_vars

\* C24: the iteration on a packet that carries a PCR, whatever branch its PID
\* takes, calls handler.pcr exactly once and before every unit the packet
\* completes is handed to the handler; an iteration on a packet without a
\* PCR does not call it.
C24_PcrForwardedOnceBeforeUnits ==
  LET calls == biim_last.calls
      pcrs == {i \in 1..Len(calls) : calls[i] = "pcr"}
  IN IF biim_last.has_pcr THEN pcrs = {1} ELSE pcrs = {}

\* a packet on an assigned PID carried a PCR and completed a unit: the PCR
\* went to the handler first
C24_Witness ==
  /\ biim_last.has_pcr
  /\ biim_last.calls = <<"pcr", "unit">>
  /\ biim_pushed # <<>>

\* the result of the scan of the buffer passed to _extract_init_boxes
ExScan == ScanBoxes(ex_data, 1, 0, <<>>, FALSE, FALSE)

\* what ensure_init_segment writes for the buffer: the extracted bytes, or
\* the whole fragment when there are none
ExInitContent == IF ex_result # None THEN ex_result ELSE WholeFragment(ex_data)

\* C25 as stated: both boxes found: the ftyp and the moov box; one found:
\* that single box; none found: no result, and ensure_init_segment writes
\* the whole fragment and sets the flag.
C25_Original ==
  ex_pc = "done" =>
    /\ (ExScan.found_ftyp /\ ExScan.found_moov)
         => /\ Len(ex_result) = 2
            /\ {ex_result[1].type, ex_result[2].type} = {"ftyp", "moov"}
    /\ (ExScan.found_ftyp /\ ~ExScan.found_moov)
         => Len(ex_result) = 1 /\ ex_result[1].type = "ftyp"
    /\ (ExScan.found_moov /\ ~ExScan.found_ftyp)
         => Len(ex_result) = 1 /\ ex_result[1].type = "moov"
    /\ (~ExScan.found_ftyp /\ ~ExScan.found_moov) => ex_result = None
    /\ init_written => init_file = Complete(ExInitContent)

\* C25 amended: the result is what the scan accumulated, in buffer order:
\* both kinds found: the boxes of the kind met first, then one box of the
\* other kind; one kind found: every scanned box of that kind; none found:
\* no result, and ensure_init_segment writes the whole fragment; in every
\* case a call whose I/O succeeds sets the flag.
C25_ExtractResultByBoxesFound ==
  ex_pc = "done" =>
    LET n == Len(ex_result)
        OfKind(t) == \A i \in 1..n : ex_result[i].type = t
    IN /\ (ExScan.found_ftyp /\ ExScan.found_moov)
            => /\ n >= 2
               /\ {ex_result[1].type, ex_result[n].type} = {"ftyp", "moov"}
               /\ \A i \in 1..(n - 1) : ex_result[i].type = ex_result[1].type
       /\ (ExScan.found_ftyp /\ ~ExScan.found_moov) => n >= 1 /\ OfKind("ftyp")
       /\ (ExScan.found_moov /\ ~ExScan.found_ftyp) => n >= 1 /\ OfKind("moov")
       /\ (~ExScan.found_ftyp /\ ~ExScan.found_moov) => ex_result = None
       /\ init_written => init_file = Complete(ExInitContent)
       /\ init_file.st # "absent" => init_file.data = ExInitContent

\* two ftyp boxes and no moov: both are returned and written as init.mp4
C25_Witness ==
  /\ ex_pc = "done"
  /\ ex_data = [boxes |-> <<Box("ftyp", 20), Box("ftyp", 20), Box("mdat", 30)>>,
                len |-> 70]
  /\ ex_result = << [type |-> "ftyp", off |-> 0, n |-> 20],
                    [type |-> "ftyp", off |-> 20, n |-> 20] >>
  /\ init_written /\ init_file = Complete(ex_result)

\* the offset the scan has when it advanced by the declared sizes of the
\* first j - 1 boxes
RECURSIVE OffsetOf(_, _)
OffsetOf(boxes, j) ==
  IF j <= 1 THEN 0 ELSE boxes[j - 1].size + OffsetOf(boxes, j - 1)

\* C26: the scan ends for every buffer; every part of the result was taken
\* at the offset reached by advancing by the declared sizes of the boxes
\* before it, offsets grow strictly, and no box at or after the first box
\* whose size is 0 or below 8 is part of the result.
C26_ScanAdvancesAndStopsAtMalformed ==
  /\ ex_pc = "called" => ENABLED Extract
  /\ ex_pc = "done" =>
       /\ \A i \in 1..Len(ex_result) :
            \E j \in 1..Len(ex_data.boxes) :
              /\ ex_result[i].off = OffsetOf(ex_data.boxes, j)
              /\ ex_result[i].type = ex_data.boxes[j].type
              /\ \A k \in 1..j : ex_data.boxes[k].size >= 8
       /\ \A i \in 1..(Len(ex_result) - 1) : ex_result[i].off < ex_result[i + 1].off

\* a ftyp box, then a box of size 4, then a moov box: only the ftyp box is
\* returned
C26_Witness ==
  /\ ex_pc = "done"
  /\ ex_data = [boxes |-> <<Box("ftyp", 20), Box("free", 4), Box("moov", 100)>>,
                len |-> 128]
  /\ ex_result = << [type |-> "ftyp", off |-> 0, n |-> 20] >>

\* C29 as stated: every ftyp or moov box found contributes exactly its
\* declared size, also when the last scanned box declares more bytes than
\* the buffer holds.
C29_FoundBoxesContributeDeclaredSize ==
  ex_pc = "done" =>
    \A i \in 1..Len(ex_result) :
      \A j \in 1..Len(ex_data.boxes) :
        ex_result[i].off = OffsetOf(ex_data.boxes, j)
          => ex_result[i].n = ex_data.boxes[j].size

\* the lines of the published playlist that start with the given tag
LinesTagged(tag) ==
  {k \in 1..Len(playlist_bytes) : playlist_bytes[k][1] = tag}

\* the header and the segment entries of the published playlist are those of
\* the current window, in ascending sequence order, each segment once
PublishedListsWindow ==
  LET n == Len(segments)
      at(i) == 7 + 4 * (i - 1)
  IN /\ n >= 1
     /\ Len(playlist_bytes) >= 7 + 4 * n
     /\ playlist_bytes[7] = <<"#EXT-X-MEDIA-SEQUENCE", base_sequence>>
     /\ LinesTagged("#EXT-X-MEDIA-SEQUENCE") = {7}
     /\ base_sequence = segments[1].sequence
     /\ \A i \in 1..(n - 1) : segments[i + 1].sequence = segments[i].sequence + 1
     /\ \A i \in 1..n :
          /\ playlist_bytes[at(i) + 1]
               = <<"#EXT-X-PROGRAM-DATE-TIME", segments[i].program_time>>
          /\ playlist_bytes[at(i) + 2]
               = <<"#EXT-X-PART", segments[i].duration, segments[i].name>>
          /\ playlist_bytes[at(i) + 3] = <<"#EXTINF", segments[i].duration>>
          /\ playlist_bytes[at(i) + 4] = <<"URI", segments[i].name>>
     /\ Cardinality(LinesTagged("URI")) = n
     /\ Cardinality(LinesTagged("#EXT-X-PART")) = n

\* C27 as stated: every published playlist lists the current window and its
\* last line is the one EXT-X-PRELOAD-HINT line, carrying the hint passed to
\* the latest add_segment.
C27_Original ==
  playlist_bytes # None =>
    /\ PublishedListsWindow
    /\ preload_hint # None
    /\ playlist_bytes[Len(playlist_bytes)] = <<"#EXT-X-PRELOAD-HINT", preload_hint[1]>>
    /\ LinesTagged("#EXT-X-PRELOAD-HINT") = {Len(playlist_bytes)}

\* C27 amended: every published playlist lists the current window; when the
\* hint passed to the latest add_segment is not empty the last line is the
\* one EXT-X-PRELOAD-HINT line carrying it, and when it is the empty string
\* there is no EXT-X-PRELOAD-HINT line and the last line is the URI of the
\* newest segment.
C27_PublishedPlaylistRendersWindow ==
  playlist_bytes # None =>
    /\ PublishedListsWindow
    /\ preload_hint # None
    /\ IF preload_hint[1] # ""
       THEN /\ playlist_bytes[Len(playlist_bytes)]
                 = <<"#EXT-X-PRELOAD-HINT", preload_hint[1]>>
            /\ LinesTagged("#EXT-X-PRELOAD-HINT") = {Len(playlist_bytes)}
       ELSE /\ LinesTagged("#EXT-X-PRELOAD-HINT") = {}
            /\ Len(playlist_bytes) = 7 + 4 * Len(segments)

\* a playlist published after an eviction, listing two segments and ending
\* with the hint line
C27_Witness ==
  /\ playlist_bytes # None
  /\ base_sequence = 1 /\ Len(segments) = 2
  /\ preload_hint = Some("part")
  /\ playlist_bytes[16] = <<"#EXT-X-PRELOAD-HINT", "part">>
  /\ Len(playlist_bytes) = 16

\* C28: a step that is not an add_segment call leaves the window, the
\* sequence counters, the version, the hint, the published bytes and the
\* playlist files as they are, and a step that changes the init flag or the
\* init file leaves every reader where it is; nothing is published while the
\* flag is false, and the first add_segment after the flag was set publishes
\* a playlist listing the window, the retained earlier segments included.
C28_EnsureInitChangesOnlyInit ==
  [][ /\ add_calls' = add_calls
           => UNCHANGED <<capacity, segments, next_sequence, base_sequence,
                          version, preload_hint, playlist_bytes, playlist_file,
                          tmp_file>>
      /\ (init_written' # init_written \/ init_file' # init_file)
           => UNCHANGED readers
      /\ ~init_written => playlist_bytes = None
      /\ (init_written /\ playlist_bytes = None /\ add_calls' # add_calls)
           => /\ playlist_bytes' # None
              /\ PublishedListsWindow'
              /\ \A i \in 1..Len(segments) :
                   segments[i].sequence >= base_sequence'
                     => \E j \in 1..Len(segments') : segments'[j] = segments[i]
    ]_vars

\* the init segment was written after two segments were added and while a
\* reader waits: the window holds them, nothing is published, the reader
\* still waits
C28_Witness ==
  /\ init_written /\ init_file.st = "complete"
  /\ Len(segments) = 2 /\ version = 2
  /\ playlist_bytes = None
  /\ \E r \in Readers : readers[r].pc = "waiting" /\ ~readers[r].notified

\* C30: a call of ensure_init_segment always returns; the flag is set only by
\* a call whose read and write succeed, with the complete init file, and a
\* failed write leaves it false; while it is false no playlist is published
\* and a further call that extracts again is possible; once true the flag
\* stays true.
C30_InitFailureLeavesFlagFalse ==
  /\ [](~init_written =>
          /\ playlist_bytes = None
          /\ playlist_file = Absent
          /\ \A data \in Fragments, io \in InitIO :
               ENABLED ensure_init_segment(data, io)
          /\ \A data \in Fragments :
               ENABLED (ensure_init_segment(data, "ok") /\ init_written'))
  /\ [][ /\ init_written => init_written'
         /\ (~init_written /\ init_written') => init_file'.st = "complete"
         /\ init_file'.st = "partial" => ~init_written'
       ]_vars

\* a failed write left a partial init file and the flag false, segments were
\* added meanwhile and nothing is published
C30_Witness ==
  /\ ~init_written
  /\ init_file.st = "partial"
  /\ Len(segments) >= 1
  /\ playlist_bytes = None

====
